---- MODULE Spec2Model ----
(***************************************************************************)
(* Model of src/main.py of Nominatim-Workshop-Country-Scraper:             *)
(*   _block_unnecessary_requests  the request filter installed on the page *)
(*   parse_cards                  the card extractor                       *)
(*   scrape_with_playwright       the bounded-retry acquisition loop       *)
(*   save_csv, main               the output writer and the entry point    *)
(* The browser engine is the environment: every call into it (goto,        *)
(* wait_for_selector, screenshot, reload) returns, raises Playwright's     *)
(* TimeoutError, or raises another Playwright Error; the DOM read by       *)
(* parse_cards is whatever the page holds at the time of the call.         *)
(***************************************************************************)
EXTENDS Integers, Sequences, FiniteSets, TLC

VARIABLES
    pc,              \* position of the single thread of control
    max_retries,     \* parameter of scrape_with_playwright
    DEBUG_HEADED,    \* module-level debug toggle
    attempt,         \* loop variable of the for statement (0: not yet bound)
    last_error,      \* the local last_error
    data,            \* the local data
    outcome,         \* how scrape_with_playwright ended, "running" before
    result,          \* the list returned by scrape_with_playwright
    raised,          \* the RuntimeError raised at the end of the function
    excOut,          \* an exception that left the try block uncaught
    closeCount,      \* number of calls of browser.close()
    playwright,      \* the sync_playwright() context: off, running, stopped
    routeInstalled,  \* page.route("**/*", ...) has been called
    navCount,        \* number of calls of page.goto
    failCount,       \* number of entries of the except clause
    shots,           \* attempt indices of the page_error_attempt_ snapshots
    reloadCount,     \* number of calls of page.reload
    lastShot,        \* outcome of the latest page.screenshot call
    lastReload,      \* outcome of the latest page.reload call
    navWaitFailed,   \* some goto / wait_for_selector did not succeed
    nonEmptySeen,    \* some parse_cards call returned a record
    graceAttempt,    \* attempt whose second parse_cards call was non-empty
    saveCount,       \* number of calls of save_csv
    saved,           \* rows written by save_csv
    printed,         \* the summary line has been printed
    route,           \* latest request seen by the route callback
    page,            \* the DOM read by the latest parse_cards call
    steps            \* steps of the current attempt that completed

vars == <<pc, max_retries, DEBUG_HEADED, attempt, last_error, data, outcome,
          result, raised, excOut, closeCount, playwright, routeInstalled,
          navCount, failCount, shots, reloadCount, lastShot, lastReload,
          navWaitFailed, nonEmptySeen, graceAttempt, saveCount, saved,
          printed, route, page, steps>>

(***************************************************************************)
(* Bounds                                                                  *)
(***************************************************************************)
MaxRetries == 3
MaxCards == 2
MaxUrlLen == 3

\* values of max_retries tried: the positive ones, zero and a negative one
RetryChoices == {0 - 1} \cup (0 .. MaxRetries)

\* what a call into the browser engine can do
Outcomes == {"ok", "timeout", "error"}

NoError == [kind |-> "none", attempt |-> 0]
NoRaise == [n |-> 0, cause |-> NoError]
NoRoute == [url |-> <<>>, resource_type |-> "none", decision |-> "none"]

(***************************************************************************)
(* _block_unnecessary_requests                                             *)
(* A URL is the sequence of its dot-separated labels; a host pattern is a  *)
(* substring of the URL when its labels occur contiguously.  No label used *)
(* here is a proper prefix or suffix of a pattern's boundary label, so     *)
(* label-wise containment coincides with Python's character-wise `in`.     *)
(***************************************************************************)
BLOCK_HOST_PATTERNS ==
    << <<"tile", "openstreetmap", "org">>,
       <<"tiles", "openstreetmap", "org">>,
       <<"basemaps", "cartocdn", "com">>,
       <<"cartocdn", "com">>,
       <<"fastly", "net">>,
       <<"gstatic", "com">>,
       <<"googleapis", "com">> >>

BLOCK_RESOURCE_TYPES == {"image", "font", "media"}

Labels == {"tile", "tiles", "openstreetmap", "org", "basemaps", "cartocdn",
           "com", "fastly", "net", "gstatic", "googleapis", "nominatim"}

ResourceTypes == {"document", "script", "xhr", "image", "font", "media"}

Urls == UNION {[1 .. n -> Labels] : n \in 0 .. MaxUrlLen}

\* Python's `h in url`
StrIn(h, url) ==
    \E i \in 1 .. Len(url) :
        /\ i + Len(h) - 1 <= Len(url)
        /\ \A j \in 1 .. Len(h) : url[i + j - 1] = h[j]

should_block_first_only(url) ==
    StrIn(BLOCK_HOST_PATTERNS[1], url)

should_block(url) ==
    \E k \in 1 .. Len(BLOCK_HOST_PATTERNS) : StrIn(BLOCK_HOST_PATTERNS[k], url)

\* the lambda handed to page.route
RouteDecision(url, resource_type) ==
    IF resource_type \in BLOCK_RESOURCE_TYPES \/ should_block(url)
    THEN "abort"
    ELSE "continue"

(***************************************************************************)
(* parse_cards                                                             *)
(* A text is the sequence of its characters.  The DOM is the sequence of   *)
(* div[role="listitem"] nodes; each node gives, for span.name, span.type   *)
(* and p.coords, what query_selector finds: no element (the empty          *)
(* sequence) or one element, represented by its inner text.                *)
(***************************************************************************)
MaxLabelLen == 5
MaxCoordLen == 4

\* str.strip(), front and back
RECURSIVE LStrip(_)
LStrip(s) ==
    IF s = <<>> THEN s
    ELSE IF Head(s) = " " THEN LStrip(Tail(s)) ELSE s

RECURSIVE RStrip(_)
RStrip(s) ==
    IF s = <<>> THEN s
    ELSE IF s[Len(s)] = " " THEN RStrip(SubSeq(s, 1, Len(s) - 1)) ELSE s

Strip(s) == RStrip(LStrip(s))

\* index of the first "," of s at or after i, 0 when there is none
RECURSIVE FindComma(_, _)
FindComma(s, i) ==
    IF i > Len(s) THEN 0
    ELSE IF s[i] = "," THEN i ELSE FindComma(s, i + 1)

\* s.split(",")
RECURSIVE Split(_)
Split(s) ==
    LET i == FindComma(s, 1) IN
    IF i = 0 THEN <<s>>
    ELSE <<SubSeq(s, 1, i - 1)>> \o Split(SubSeq(s, i + 1, Len(s)))

\* s.split(",", 1) with every piece
SplitAll2(s) ==
    LET ps == Split(s) IN <<ps[1], ps[2]>>

\* s.split(",", 1), for s that holds a comma
SplitOnce(s) ==
    LET i == FindComma(s, 1) IN
    <<SubSeq(s, 1, i - 1), SubSeq(s, i + 1, Len(s))>>

\* [p.strip() for p in pieces if p.strip()]
RECURSIVE StripNonEmpty(_)
StripNonEmpty(pieces) ==
    IF pieces = <<>> THEN <<>>
    ELSE LET t == Strip(Head(pieces)) IN
         IF t = <<>> THEN StripNonEmpty(Tail(pieces))
         ELSE <<t>> \o StripNonEmpty(Tail(pieces))

\* ", ".join(parts)
RECURSIVE Join(_)
Join(parts) ==
    IF parts = <<>> THEN <<>>
    ELSE IF Len(parts) = 1 THEN parts[1]
    ELSE parts[1] \o <<",", " ">> \o Join(Tail(parts))

\* parts = [p.strip() for p in full_name.split(",") if p.strip()]
PartsOf(full_name) == StripNonEmpty(Split(full_name))

\* name = parts[0] if parts else ""
NameOf_last(parts) == IF parts # <<>> THEN parts[Len(parts)] ELSE <<>>

NameOf(parts) == IF parts # <<>> THEN parts[1] ELSE <<>>

\* country = parts[-1] if len(parts) > 1 else ""
CountryOf_always_last(parts) ==
    IF Len(parts) > 0 THEN parts[Len(parts)] ELSE <<>>

CountryOf(parts) == IF Len(parts) > 1 THEN parts[Len(parts)] ELSE <<>>

\* address = ", ".join(parts[1:-1]) if len(parts) > 2 else ""
AddressOf(parts) ==
    IF Len(parts) > 2 THEN Join(SubSeq(parts, 2, Len(parts) - 1)) ELSE <<>>

\* lat, lon = "", ""; if coords_el: txt = ...strip(); if "," in txt: ...
CoordsOf_split_all(coords_el) ==
    IF coords_el = <<>> THEN <<<<>>, <<>>>>
    ELSE LET txt == Strip(coords_el[1]) IN
         IF FindComma(txt, 1) # 0
         THEN LET cs == SplitAll2(txt) IN <<Strip(cs[1]), Strip(cs[2])>>
         ELSE <<<<>>, <<>>>>

CoordsOf(coords_el) ==
    IF coords_el = <<>> THEN <<<<>>, <<>>>>
    ELSE LET txt == Strip(coords_el[1]) IN
         IF FindComma(txt, 1) # 0
         THEN LET cs == SplitOnce(txt) IN <<Strip(cs[1]), Strip(cs[2])>>
         ELSE <<<<>>, <<>>>>

\* btype = type_el.inner_text().strip() if type_el else ""
TypeOf(type_el) == IF type_el = <<>> THEN <<>> ELSE Strip(type_el[1])

\* the body of the loop for a card that has a span.name
ParseCard(card) ==
    LET parts == PartsOf(Strip(card.name[1]))
        ll == CoordsOf(card.coords)
    IN [Name |-> NameOf(parts),
        Address |-> AddressOf(parts),
        Country |-> CountryOf(parts),
        Type |-> TypeOf(card.type),
        Latitude |-> ll[1],
        Longitude |-> ll[2]]

\* a loop that also drops the cards without p.coords
RECURSIVE parse_from_need_coords(_, _)
parse_from_need_coords(cards, i) ==
    IF i > Len(cards) THEN <<>>
    ELSE IF cards[i].name = <<>> \/ cards[i].coords = <<>>
         THEN parse_from_need_coords(cards, i + 1)
    ELSE <<ParseCard(cards[i])>> \o parse_from_need_coords(cards, i + 1)

RECURSIVE parse_from(_, _)
parse_from(cards, i) ==
    IF i > Len(cards) THEN <<>>
    ELSE IF cards[i].name = <<>> THEN parse_from(cards, i + 1)
    ELSE <<ParseCard(cards[i])>> \o parse_from(cards, i + 1)

parse_cards(cards) == parse_from(cards, 1)

\* texts of at most n characters over an alphabet
Texts(alphabet, n) == UNION {[1 .. k -> alphabet] : k \in 0 .. n}

Card(name_el, type_el, coords_el) ==
    [name |-> name_el, type |-> type_el, coords |-> coords_el]

\* the DOMs the acquisition loop meets: cards with and without span.name
CardNoName == Card(<<>>, <<>>, <<>>)
CardFull == Card(<< <<"A", ",", "B">> >>, << <<"t">> >>, << <<"1", ",", "2">> >>)

Doms == UNION {[1 .. n -> {CardNoName, CardFull}] : n \in 0 .. MaxCards}

\* the DOMs parse_cards is examined on
LabelExample == <<"A", ",", " ", "B", ",", " ", "C", ",", " ", "D">>
CoordExample == <<"4", "5", ".", "0", ",", " ", "-", "7", "3", ".", "0">>

LabelTexts == Texts({"A", "B", ",", " "}, MaxLabelLen) \cup {LabelExample}
CoordTexts == Texts({"1", "-", ",", " "}, MaxCoordLen) \cup {CoordExample}

SampleCards ==
    {Card(n, t, c) : n \in {<<>>, << <<"A">> >>, << <<"B", ",", "A">> >>},
                     t \in {<<>>, << <<"t">> >>},
                     c \in {<<>>, << <<"1", ",", "2">> >>}}

ParseInputs ==
    {<<Card(<<l>>, <<>>, <<>>)>> : l \in LabelTexts}
    \cup {<<Card(<< <<"A">> >>, <<>>, <<c>>)>> : c \in CoordTexts}
    \cup UNION {[1 .. n -> SampleCards] : n \in 0 .. MaxCards}

(***************************************************************************)
(* scrape_with_playwright                                                  *)
(***************************************************************************)
\* except (PlaywrightTimeoutError, RuntimeError)
Caught(kind) == kind \in {"timeout", "runtime"}

\* last_error = e
RecordError_keep_first(old, e) == IF old = NoError THEN e ELSE old

RecordError(old, e) == e

\* membership of the next index in range(1, max_retries + 1)
InRange_at_least_once(i, n) == i = 1 \/ (1 <= i /\ i < n + 1)

InRange_inclusive(i, n) == 1 <= i /\ i <= n + 1

InRange(i, n) == 1 <= i /\ i < n + 1

\* main: save_csv and print run only when the call returned
AfterScrape_always_save(o) == "m_save"

AfterScrape(o) == IF o = "returned" THEN "m_save" ELSE "m_failed"

\* the for statement: bind the next attempt or fall out of the loop
LoopNext ==
    IF InRange(attempt + 1, max_retries)
    THEN attempt' = attempt + 1 /\ pc' = "goto" /\ steps' = <<>>
    ELSE attempt' = attempt /\ pc' = "close_fail" /\ steps' = steps

\* a statement of the try block completed
Continue(nextPc) ==
    /\ pc' = nextPc
    /\ UNCHANGED <<last_error, failCount, outcome, excOut, playwright>>

\* a statement of the try block raised e
Handle(e) ==
    IF Caught(e.kind)
    THEN /\ pc' = "shot_err"
         /\ last_error' = RecordError(last_error, e)
         /\ failCount' = failCount + 1
         /\ UNCHANGED <<outcome, excOut, playwright>>
    ELSE /\ pc' = AfterScrape("propagated")
         /\ outcome' = "propagated"
         /\ excOut' = e
         /\ playwright' = "stopped"
         /\ UNCHANGED <<last_error, failCount>>

StepResult_swallow_timeout(o, nextPc) ==
    IF o \in {"ok", "timeout"} THEN Continue(nextPc)
    ELSE Handle([kind |-> o, attempt |-> attempt])

StepResult(o, nextPc) ==
    IF o = "ok" THEN Continue(nextPc)
    ELSE Handle([kind |-> o, attempt |-> attempt])

\* pc after a non-empty extraction
OkPc(shotPc) == IF DEBUG_HEADED THEN shotPc ELSE "close_ret"

Init ==
    /\ pc = "start"
    /\ max_retries \in RetryChoices
    /\ DEBUG_HEADED \in BOOLEAN
    /\ attempt = 0
    /\ last_error = NoError
    /\ data = <<>>
    /\ outcome = "running"
    /\ result = <<>>
    /\ raised = NoRaise
    /\ excOut = NoError
    /\ closeCount = 0
    /\ playwright = "off"
    /\ routeInstalled = FALSE
    /\ navCount = 0
    /\ failCount = 0
    /\ shots = <<>>
    /\ reloadCount = 0
    /\ lastShot = "none"
    /\ lastReload = "none"
    /\ navWaitFailed = FALSE
    /\ nonEmptySeen = FALSE
    /\ graceAttempt = 0
    /\ saveCount = 0
    /\ saved = <<>>
    /\ printed = FALSE
    /\ route = NoRoute
    /\ page = <<>>
    /\ steps = <<>>

\* main calls scrape_with_playwright: launch, context, page, route, loop entry
Launch ==
    /\ pc = "start"
    /\ playwright' = "running"
    /\ routeInstalled' = TRUE
    /\ last_error' = NoError
    /\ LoopNext
    /\ UNCHANGED <<max_retries, DEBUG_HEADED, data, outcome, result, raised,
                   excOut, closeCount, navCount, failCount, shots,
                   reloadCount, lastShot, lastReload, navWaitFailed,
                   nonEmptySeen, graceAttempt, saveCount, saved, printed,
                   route,
                   page>>

\* page.goto(url, wait_until="domcontentloaded")
Goto ==
    /\ pc = "goto"
    /\ \E o \in Outcomes :
        /\ StepResult(o, "wait_attached")
        /\ navWaitFailed' = (navWaitFailed \/ o # "ok")
        /\ steps' = IF o = "ok" THEN Append(steps, "goto") ELSE steps
    /\ navCount' = navCount + 1
    /\ UNCHANGED <<max_retries, DEBUG_HEADED, attempt, data, result, raised,
                   closeCount, routeInstalled, shots, reloadCount, lastShot,
                   lastReload, nonEmptySeen, graceAttempt, saveCount, saved,
                   printed, route,
                   page>>

\* page.wait_for_selector('#searchresults', state="attached")
WaitAttached ==
    /\ pc = "wait_attached"
    /\ \E o \in Outcomes :
        /\ StepResult(o, "wait_visible")
        /\ navWaitFailed' = (navWaitFailed \/ o # "ok")
        /\ steps' = IF o = "ok" THEN Append(steps, "attached") ELSE steps
    /\ UNCHANGED <<max_retries, DEBUG_HEADED, attempt, data, result, raised,
                   closeCount, routeInstalled, navCount, shots, reloadCount,
                   lastShot, lastReload, nonEmptySeen, graceAttempt,
                   saveCount, saved, printed, route,
                   page>>

\* page.wait_for_selector('div[role="listitem"]', state="visible")
WaitVisible ==
    /\ pc = "wait_visible"
    /\ \E o \in Outcomes :
        /\ StepResult(o, "settle1")
        /\ navWaitFailed' = (navWaitFailed \/ o # "ok")
        /\ steps' = IF o = "ok" THEN Append(steps, "visible") ELSE steps
    /\ UNCHANGED <<max_retries, DEBUG_HEADED, attempt, data, result, raised,
                   closeCount, routeInstalled, navCount, shots, reloadCount,
                   lastShot, lastReload, nonEmptySeen, graceAttempt,
                   saveCount, saved, printed, route,
                   page>>

\* page.wait_for_timeout(500)
Wait500 ==
    /\ pc = "settle1"
    /\ pc' = "parse1"
    /\ steps' = Append(steps, "wait500")
    /\ UNCHANGED <<max_retries, DEBUG_HEADED, attempt, last_error, data,
                   outcome, result, raised, excOut, closeCount, playwright,
                   routeInstalled, navCount, failCount, shots, reloadCount,
                   lastShot, lastReload, navWaitFailed, nonEmptySeen,
                   graceAttempt, saveCount, saved, printed, route, page>>

\* what a step records about an extraction
ParseStep(d) == IF d # <<>> THEN "parse_some" ELSE "parse_empty"

\* data = parse_cards(page); if data, for a page whose DOM is in doms
Parse1In(doms) ==
    /\ pc = "parse1"
    /\ \E dom \in doms :
        /\ page' = dom
        /\ data' = parse_cards(dom)
        /\ steps' = Append(steps, ParseStep(data'))
        /\ IF data' # <<>>
           THEN pc' = OkPc("shot_ok") /\ nonEmptySeen' = TRUE
           ELSE pc' = "settle2" /\ nonEmptySeen' = nonEmptySeen
    /\ UNCHANGED <<max_retries, DEBUG_HEADED, attempt, last_error, outcome,
                   result, raised, excOut, closeCount, playwright,
                   routeInstalled, navCount, failCount, shots, reloadCount,
                   lastShot, lastReload, navWaitFailed, graceAttempt,
                   saveCount, saved, printed, route>>

Parse1 == Parse1In(Doms)

\* page.wait_for_timeout(1500)
Wait1500 ==
    /\ pc = "settle2"
    /\ pc' = "parse2"
    /\ steps' = Append(steps, "wait1500")
    /\ UNCHANGED <<max_retries, DEBUG_HEADED, attempt, last_error, data,
                   outcome, result, raised, excOut, closeCount, playwright,
                   routeInstalled, navCount, failCount, shots, reloadCount,
                   lastShot, lastReload, navWaitFailed, nonEmptySeen,
                   graceAttempt, saveCount, saved, printed, route, page>>

\* a second extraction that, when empty, waits and extracts once more
Parse2_once_more ==
    /\ pc = "parse2"
    /\ \E dom \in Doms :
        /\ page' = dom
        /\ data' = parse_cards(dom)
        /\ steps' = Append(steps, ParseStep(data'))
        /\ IF data' # <<>>
           THEN /\ Continue(OkPc("shot_ok2"))
                /\ nonEmptySeen' = TRUE
                /\ graceAttempt' = attempt
           ELSE IF Len(steps) < 8
           THEN /\ Continue("settle2")
                /\ UNCHANGED <<nonEmptySeen, graceAttempt>>
           ELSE /\ Handle([kind |-> "runtime", attempt |-> attempt])
                /\ UNCHANGED <<nonEmptySeen, graceAttempt>>
    /\ UNCHANGED <<max_retries, DEBUG_HEADED, attempt, result, raised,
                   closeCount, routeInstalled, navCount, shots, reloadCount,
                   lastShot, lastReload, navWaitFailed, saveCount, saved,
                   printed, route>>

\* data = parse_cards(page); if data ... else raise RuntimeError
Parse2 ==
    /\ pc = "parse2"
    /\ \E dom \in Doms :
        /\ page' = dom
        /\ data' = parse_cards(dom)
        /\ steps' = Append(steps, ParseStep(data'))
        /\ IF data' # <<>>
           THEN /\ Continue(OkPc("shot_ok2"))
                /\ nonEmptySeen' = TRUE
                /\ graceAttempt' = attempt
           ELSE /\ Handle([kind |-> "runtime", attempt |-> attempt])
                /\ UNCHANGED <<nonEmptySeen, graceAttempt>>
    /\ UNCHANGED <<max_retries, DEBUG_HEADED, attempt, result, raised,
                   closeCount, routeInstalled, navCount, shots, reloadCount,
                   lastShot, lastReload, navWaitFailed, saveCount, saved,
                   printed, route>>

\* if DEBUG_HEADED: page.screenshot(path="output/page_ok.png")
ShotOk ==
    /\ pc = "shot_ok"
    /\ \E o \in Outcomes :
        /\ StepResult(o, "close_ret")
        /\ lastShot' = o
        /\ steps' = IF o = "ok" THEN Append(steps, "shot_ok") ELSE steps
    /\ UNCHANGED <<max_retries, DEBUG_HEADED, attempt, data, result, raised,
                   closeCount, routeInstalled, navCount, shots, reloadCount,
                   lastReload, navWaitFailed, nonEmptySeen, graceAttempt,
                   saveCount, saved, printed, route,
                   page>>

\* if DEBUG_HEADED: page.screenshot(path="output/page_ok2.png")
ShotOk2 ==
    /\ pc = "shot_ok2"
    /\ \E o \in Outcomes :
        /\ StepResult(o, "close_ret")
        /\ lastShot' = o
        /\ steps' = IF o = "ok" THEN Append(steps, "shot_ok2") ELSE steps
    /\ UNCHANGED <<max_retries, DEBUG_HEADED, attempt, data, result, raised,
                   closeCount, routeInstalled, navCount, shots, reloadCount,
                   lastReload, navWaitFailed, nonEmptySeen, graceAttempt,
                   saveCount, saved, printed, route,
                   page>>

\* browser.close(); return data
CloseReturn ==
    /\ pc = "close_ret"
    /\ closeCount' = closeCount + 1
    /\ result' = data
    /\ outcome' = "returned"
    /\ playwright' = "stopped"
    /\ pc' = AfterScrape("returned")
    /\ UNCHANGED <<max_retries, DEBUG_HEADED, attempt, last_error, data,
                   raised, excOut, routeInstalled, navCount, failCount,
                   shots, reloadCount, lastShot, lastReload, navWaitFailed,
                   nonEmptySeen, graceAttempt, saveCount, saved, printed,
                   route,
                   page, steps>>

\* a handler that skips the reload after the last attempt
ShotErr_no_last_reload ==
    /\ pc = "shot_err"
    /\ \E o \in Outcomes : lastShot' = o
    /\ shots' = Append(shots, attempt)
    /\ pc' = IF attempt < max_retries THEN "reload" ELSE "close_fail"
    /\ UNCHANGED <<max_retries, DEBUG_HEADED, attempt, last_error, data,
                   outcome, result, raised, excOut, closeCount, playwright,
                   routeInstalled, navCount, failCount, reloadCount,
                   lastReload, navWaitFailed, nonEmptySeen, graceAttempt,
                   saveCount, saved, printed, route,
                   page, steps>>

\* try: page.screenshot(path=f"output/page_error_attempt_{attempt}.png")
\* except Exception: pass
ShotErr ==
    /\ pc = "shot_err"
    /\ \E o \in Outcomes : lastShot' = o
    /\ shots' = Append(shots, attempt)
    /\ pc' = "reload"
    /\ UNCHANGED <<max_retries, DEBUG_HEADED, attempt, last_error, data,
                   outcome, result, raised, excOut, closeCount, playwright,
                   routeInstalled, navCount, failCount, reloadCount,
                   lastReload, navWaitFailed, nonEmptySeen, graceAttempt,
                   saveCount, saved, printed, route,
                   page, steps>>

\* a reload whose failure is not swallowed
Reload_unprotected ==
    /\ pc = "reload"
    /\ \E o \in Outcomes :
        /\ lastReload' = o
        /\ IF o = "ok"
           THEN LoopNext /\ UNCHANGED <<outcome, excOut, playwright>>
           ELSE /\ pc' = AfterScrape("propagated")
                /\ outcome' = "propagated"
                /\ excOut' = [kind |-> o, attempt |-> attempt]
                /\ playwright' = "stopped"
                /\ attempt' = attempt
                /\ steps' = steps
    /\ reloadCount' = reloadCount + 1
    /\ UNCHANGED <<max_retries, DEBUG_HEADED, last_error, data, result,
                   raised, closeCount, routeInstalled, navCount, failCount,
                   shots, lastShot, navWaitFailed, nonEmptySeen,
                   graceAttempt, saveCount, saved, printed, route,
                   page>>

\* try: page.reload(wait_until="domcontentloaded") except Exception: pass
\* and the for statement's next iteration
Reload ==
    /\ pc = "reload"
    /\ \E o \in Outcomes : lastReload' = o
    /\ reloadCount' = reloadCount + 1
    /\ LoopNext
    /\ UNCHANGED <<max_retries, DEBUG_HEADED, last_error, data, outcome,
                   result, raised, excOut, closeCount, playwright,
                   routeInstalled, navCount, failCount, shots, lastShot,
                   navWaitFailed, nonEmptySeen, graceAttempt, saveCount,
                   saved, printed, route,
                   page>>

\* browser.close(); raise RuntimeError(f"Failed after {max_retries} ...")
CloseFail ==
    /\ pc = "close_fail"
    /\ closeCount' = closeCount + 1
    /\ raised' = [n |-> max_retries, cause |-> last_error]
    /\ outcome' = "exhausted"
    /\ playwright' = "stopped"
    /\ pc' = AfterScrape("exhausted")
    /\ UNCHANGED <<max_retries, DEBUG_HEADED, attempt, last_error, data,
                   result, excOut, routeInstalled, navCount, failCount,
                   shots, reloadCount, lastShot, lastReload, navWaitFailed,
                   nonEmptySeen, graceAttempt, saveCount, saved, printed,
                   route,
                   page, steps>>

(***************************************************************************)
(* save_csv and main                                                       *)
(***************************************************************************)
SaveCsv ==
    /\ pc = "m_save"
    /\ saveCount' = saveCount + 1
    /\ saved' = result
    /\ pc' = "m_print"
    /\ UNCHANGED <<max_retries, DEBUG_HEADED, attempt, last_error, data,
                   outcome, result, raised, excOut, closeCount, playwright,
                   routeInstalled, navCount, failCount, shots, reloadCount,
                   lastShot, lastReload, navWaitFailed, nonEmptySeen,
                   graceAttempt, printed, route,
                   page, steps>>

PrintSummary ==
    /\ pc = "m_print"
    /\ printed' = TRUE
    /\ pc' = "m_done"
    /\ UNCHANGED <<max_retries, DEBUG_HEADED, attempt, last_error, data,
                   outcome, result, raised, excOut, closeCount, playwright,
                   routeInstalled, navCount, failCount, shots, reloadCount,
                   lastShot, lastReload, navWaitFailed, nonEmptySeen,
                   graceAttempt, saveCount, saved, route,
                   page, steps>>

Next ==
    \/ Launch
    \/ Goto
    \/ WaitAttached
    \/ WaitVisible
    \/ Wait500
    \/ Parse1
    \/ Wait1500
    \/ Parse2
    \/ ShotOk
    \/ ShotOk2
    \/ CloseReturn
    \/ ShotErr
    \/ Reload
    \/ CloseFail
    \/ SaveCsv
    \/ PrintSummary

Spec == Init /\ [][Next]_vars

\* every call returns or raises in the end, so the one thread keeps going
SpecFair == Spec /\ WF_vars(Next)

(***************************************************************************)
(* The route callback, run by the engine for a request of the pending      *)
(* navigation, with every URL and resource type of the bounded universe;    *)
(* the engine hands the callback one request at a time.                    *)
(***************************************************************************)
RouteRequest ==
    /\ routeInstalled
    /\ pc = "goto"
    /\ route = NoRoute
    /\ \E url \in Urls, rt \in ResourceTypes :
        route' = [url |-> url, resource_type |-> rt,
                  decision |-> RouteDecision(url, rt)]
    /\ UNCHANGED <<pc, max_retries, DEBUG_HEADED, attempt, last_error, data,
                   outcome, result, raised, excOut, closeCount, playwright,
                   routeInstalled, navCount, failCount, shots, reloadCount,
                   lastShot, lastReload, navWaitFailed, nonEmptySeen,
                   graceAttempt, saveCount, saved, printed,
                   page, steps>>

\* route.abort() / route.continue_() has been carried out
RouteSettled ==
    /\ route # NoRoute
    /\ route' = NoRoute
    /\ UNCHANGED <<pc, max_retries, DEBUG_HEADED, attempt, last_error, data,
                   outcome, result, raised, excOut, closeCount, playwright,
                   routeInstalled, navCount, failCount, shots, reloadCount,
                   lastShot, lastReload, navWaitFailed, nonEmptySeen,
                   graceAttempt, saveCount, saved, printed,
                   page, steps>>

NextFilter ==
    \/ Launch
    \/ RouteRequest
    \/ RouteSettled

SpecFilter == Init /\ [][NextFilter]_vars

(***************************************************************************)
(* The route callback interleaved with the acquisition loop.  The engine   *)
(* runs the callback while the single thread of control is inside one of   *)
(* its synchronous calls, and that call does not return before the         *)
(* callback has finished.                                                  *)
(***************************************************************************)
\* every position is taken to be inside an engine call
InEngineCall_anywhere(p) == TRUE

\* positions at which control is inside a call on the page: goto,
\* wait_for_selector, wait_for_timeout, the query_selector and inner_text
\* calls of parse_cards, screenshot, reload
InEngineCall(p) ==
    p \in {"goto", "wait_attached", "wait_visible", "settle1", "parse1",
           "settle2", "parse2", "shot_ok", "shot_ok2", "shot_err", "reload"}

RouteSampleUrls == {<<"nominatim">>, <<"tile", "openstreetmap", "org">>}
RouteSampleTypes == {"document", "image"}

\* the engine hands a request to the callback
RouteEvent ==
    /\ routeInstalled
    /\ InEngineCall(pc)
    /\ route = NoRoute
    /\ \E url \in RouteSampleUrls, rt \in RouteSampleTypes :
        route' = [url |-> url, resource_type |-> rt,
                  decision |-> RouteDecision(url, rt)]
    /\ UNCHANGED <<pc, max_retries, DEBUG_HEADED, attempt, last_error, data,
                   outcome, result, raised, excOut, closeCount, playwright,
                   routeInstalled, navCount, failCount, shots, reloadCount,
                   lastShot, lastReload, navWaitFailed, nonEmptySeen,
                   graceAttempt, saveCount, saved, printed, page, steps>>

\* a step of the acquisition loop, taken when no callback is running
ControlStep ==
    /\ route = NoRoute
    /\ Next

NextRoute ==
    \/ ControlStep
    \/ RouteEvent
    \/ RouteSettled

SpecRoute == Init /\ [][NextRoute]_vars

(***************************************************************************)
(* parse_cards on its own: the loop is run up to the first extraction,     *)
(* which reads every DOM of ParseInputs.                                   *)
(***************************************************************************)
ParseAny == Parse1In(ParseInputs)

NextParse ==
    \/ Launch
    \/ Goto
    \/ WaitAttached
    \/ WaitVisible
    \/ Wait500
    \/ ParseAny

SpecParse == Init /\ [][NextParse]_vars

(***************************************************************************)
(* Properties of the acquisition loop                                      *)
(***************************************************************************)
Finished == outcome # "running"

\* C1: a run either returns a non-empty sequence of records or fails with
\* the aggregated error after max_retries unsuccessful attempts; it never
\* returns an empty sequence and never fails before max_retries attempts.
C1_ReturnsOrExhausts ==
    Finished =>
        \/ outcome = "returned" /\ result # <<>>
        \/ /\ outcome = "exhausted"
           /\ navCount >= max_retries
           /\ failCount = navCount

\* C2: however a run ends, browser.close() has been called exactly once by
\* then, and it is never called twice.
C2_ClosedExactlyOnce ==
    /\ closeCount <= 1
    /\ Finished => closeCount = 1

\* C3: the only error a run surfaces is the RuntimeError raised after all
\* attempts; no failure of a step inside an attempt leaves the run directly.
C3_OnlyExhaustedSurfaces ==
    /\ outcome \in {"running", "returned", "exhausted"}
    /\ excOut = NoError

\* C4: once the second extraction of an attempt is non-empty, the run
\* returns those records within that attempt: no further navigation, no
\* failure snapshot or reload for that attempt, no recorded error for it,
\* and the attempt counter stays where it is.
C4_GraceSuccessSameAttempt ==
    graceAttempt # 0 =>
        /\ attempt = graceAttempt
        /\ navCount = graceAttempt
        /\ \A i \in 1 .. Len(shots) : shots[i] # graceAttempt
        /\ reloadCount = graceAttempt - 1
        /\ last_error.attempt # graceAttempt
        /\ outcome \in {"running", "returned"}
        /\ (outcome = "returned" => result = data /\ result # <<>>)

\* C5: when every extraction returns zero cards and every navigation and
\* wait succeeds, the run makes exactly max_retries navigations and then
\* fails with the exhausted-retries error: never fewer, never one more.
C5_AllEmptyExactlyN ==
    (~navWaitFailed /\ ~nonEmptySeen /\ max_retries >= 0) =>
        /\ navCount <= max_retries
        /\ attempt <= max_retries
        /\ Finished =>
            /\ outcome = "exhausted"
            /\ navCount = max_retries
            /\ failCount = max_retries
            /\ raised.n = max_retries

C5_Witness ==
    /\ outcome = "exhausted"
    /\ ~navWaitFailed
    /\ ~nonEmptySeen
    /\ max_retries >= 2
    /\ navCount = max_retries

C7_SnapshotFailureHarmless ==
    [][ /\ pc = "shot_err" =>
              /\ pc' = "reload"
              /\ last_error' = last_error
              /\ outcome' = outcome
        /\ pc \in {"shot_ok", "shot_ok2"} =>
              /\ pc' = "close_ret"
              /\ last_error' = last_error
              /\ failCount' = failCount
              /\ outcome' = outcome ]_vars

\* C8: a failed reload after a failed attempt k < max_retries is swallowed:
\* the loop binds attempt k+1 and its next step is page.goto, the failure
\* is not raised and last_error still holds the attempt's own error.
C8_ReloadFailureSwallowed ==
    [][ (pc = "reload" /\ attempt < max_retries /\ lastReload' # "ok") =>
            /\ pc' = "goto"
            /\ attempt' = attempt + 1
            /\ navCount' = attempt
            /\ last_error' = last_error
            /\ last_error.attempt = attempt
            /\ outcome' = "running"
            /\ excOut' = NoError ]_vars

C8_Witness ==
    /\ pc = "goto"
    /\ lastReload \in {"timeout", "error"}
    /\ attempt >= 2
    /\ navCount = attempt - 1
    /\ last_error.attempt = attempt - 1

\* C9: the error raised after exhausting the attempts names max_retries and
\* carries the error of the last (max_retries-th) attempt, not an earlier one.
C9_LastErrorIsContext ==
    (outcome = "exhausted" /\ max_retries >= 1) =>
        /\ raised.n = max_retries
        /\ raised.cause.attempt = max_retries
        /\ raised.cause.kind \in {"timeout", "runtime"}
        /\ raised.cause = last_error

C9_Witness ==
    /\ outcome = "exhausted"
    /\ max_retries >= 2
    /\ failCount = max_retries
    /\ raised.cause.attempt = max_retries

(***************************************************************************)
(* Properties of the request filter                                        *)
(***************************************************************************)
BlockedHostSubstrings ==
    { <<"tile", "openstreetmap", "org">>, <<"tiles", "openstreetmap", "org">>,
      <<"basemaps", "cartocdn", "com">>, <<"cartocdn", "com">>,
      <<"fastly", "net">>, <<"gstatic", "com">>, <<"googleapis", "com">> }

UrlContains(url, h) ==
    \E i \in 0 .. (Len(url) - Len(h)) : SubSeq(url, i + 1, i + Len(h)) = h

HasBlockedHost(url) == \E h \in BlockedHostSubstrings : UrlContains(url, h)

\* C10: a request is aborted if and only if its category is image, font or
\* media or its URL contains a blocked host substring; so a blocked host is
\* aborted for every category, image/font/media for every URL, and a
\* document or script request to a URL without blocked substring continues.
C10_FilterDecision ==
    route # NoRoute =>
        /\ route.decision \in {"abort", "continue"}
        /\ route.decision = "abort" <=>
               \/ route.resource_type \in {"image", "font", "media"}
               \/ HasBlockedHost(route.url)
        /\ HasBlockedHost(route.url) => route.decision = "abort"
        /\ route.resource_type \in {"image", "font", "media"} =>
               route.decision = "abort"
        /\ (~HasBlockedHost(route.url)
              /\ route.resource_type \in {"document", "script"}) =>
               route.decision = "continue"

C10_Witness ==
    /\ route.resource_type = "document"
    /\ route.decision = "abort"
    /\ route.url = <<"nominatim", "fastly", "net">>

(***************************************************************************)
(* Properties of parse_cards                                               *)
(* The segments of a label are stated from the positions of its commas,    *)
(* not by splitting: a raw segment lies between two neighbouring cut       *)
(* points, and it counts when something other than blanks is left of it.   *)
(***************************************************************************)
MinOf(S) == CHOOSE x \in S : \A y \in S : x <= y
MaxOf(S) == CHOOSE x \in S : \A y \in S : y <= x

Trimmed(t) ==
    LET ns == {i \in 1 .. Len(t) : t[i] # " "} IN
    IF ns = {} THEN <<>> ELSE SubSeq(t, MinOf(ns), MaxOf(ns))

Cuts(t) == {0} \cup {i \in 1 .. Len(t) : t[i] = ","}

\* the trimmed text between the cut point a and the next one
SegmentAt(t, a) ==
    LET later == {c \in Cuts(t) \cup {Len(t) + 1} : c > a} IN
    Trimmed(SubSeq(t, a + 1, MinOf(later) - 1))

SegmentStarts(t) == {a \in Cuts(t) : SegmentAt(t, a) # <<>>}

SegmentCount(t) == Cardinality(SegmentStarts(t))

\* the j-th non-empty trimmed segment
Segment(t, j) ==
    LET st == SegmentStarts(t)
        a == CHOOSE x \in st : Cardinality({y \in st : y <= x}) = j
    IN SegmentAt(t, a)

\* segments from..to joined by ", ", built from the right
RECURSIVE Joined(_, _, _)
Joined(t, from, to) ==
    IF to < from THEN <<>>
    ELSE IF to = from THEN Segment(t, from)
    ELSE Joined(t, from, to - 1) \o <<",", " ">> \o Segment(t, to)

\* the cards of a DOM that have a span.name, by position
NamedCards(dom) == {i \in 1 .. Len(dom) : dom[i].name # <<>>}

\* the position of the j-th card that has a span.name
NthNamed(dom, j) ==
    CHOOSE i \in NamedCards(dom) :
        Cardinality({m \in NamedCards(dom) : m <= i}) = j

Text(str) ==
    CASE str = "A" -> <<"A">>
      [] str = "B, C" -> <<"B", ",", " ", "C">>
      [] str = "D" -> <<"D">>
      [] str = "45.0" -> <<"4", "5", ".", "0">>
      [] str = "-73.0" -> <<"-", "7", "3", ".", "0">>
      [] OTHER -> <<>>

\* C11: the label is split on commas, each segment trimmed, the empty ones
\* dropped; over the remaining s1..sk, name = s1, country = sk if k > 1
\* else empty, address = s2..s(k-1) joined by ", " (empty when k <= 2).
\* "A, B, C, D" gives "A" / "B, C" / "D"; "A" gives "A" / "" / "".
C11_PositionalFields ==
    \A j \in 1 .. Cardinality(NamedCards(page)) :
        /\ j <= Len(data)
        /\ LET label == page[NthNamed(page, j)].name[1]
               k == SegmentCount(label)
               r == data[j]
           IN /\ k >= 1 => r.Name = Segment(label, 1)
              /\ r.Country = IF k > 1 THEN Segment(label, k) ELSE <<>>
              /\ r.Address = IF k > 2 THEN Joined(label, 2, k - 1) ELSE <<>>
              /\ label = LabelExample =>
                    /\ r.Name = Text("A")
                    /\ r.Address = Text("B, C")
                    /\ r.Country = Text("D")
              /\ label = Text("A") =>
                    /\ r.Name = Text("A")
                    /\ r.Address = <<>>
                    /\ r.Country = <<>>

C11_Witness ==
    /\ Len(page) = 1
    /\ page[1].name = <<LabelExample>>
    /\ Len(data) = 1
    /\ data[1].Address = Text("B, C")
    /\ data[1].Country = Text("D")

\* C12: parse_cards outputs one record per card that has a primary label,
\* none for a card without it, in DOM order: the output is as long as the
\* DOM minus the cards without primary label, the j-th record comes from
\* the j-th labelled card, and a missing secondary label or coordinate
\* node never excludes a card.
C12_OneRecordPerLabelledCard ==
    /\ Len(data) = Len(page) - Cardinality({i \in 1 .. Len(page) :
                                               page[i].name = <<>>})
    /\ \A j \in 1 .. Len(data) :
          LET card == page[NthNamed(page, j)] IN
          /\ SegmentCount(card.name[1]) >= 1 =>
                data[j].Name = Segment(card.name[1], 1)
          /\ data[j].Type =
                (IF card.type = <<>> THEN <<>> ELSE Trimmed(card.type[1]))
          /\ (data[j].Latitude = <<>>) <=> (card.coords = <<>>
                \/ Cuts(card.coords[1]) = {0}
                \/ SegmentAt(card.coords[1], 0) = <<>>)

C12_Witness ==
    /\ Len(page) = 2
    /\ page[1].name = <<>>
    /\ page[2].name # <<>>
    /\ page[2].type = <<>>
    /\ page[2].coords = <<>>
    /\ Len(data) = 1
    /\ data[1].Name = Text("A")

\* C13 as claimed: every record produced by parse_cards has a non-empty
\* name, whatever the text of the card's label.
C13_NameNeverEmpty ==
    \A j \in 1 .. Len(data) : data[j].Name # <<>>

\* C13 as amended: the name of a record is the first non-empty trimmed
\* comma-delimited segment of the card's label, and it is empty exactly
\* when the label has no such segment (only blanks and commas, or nothing).
C13_NameIsFirstSegmentOrEmpty ==
    \A j \in 1 .. Cardinality(NamedCards(page)) :
        /\ j <= Len(data)
        /\ LET label == page[NthNamed(page, j)].name[1] IN
           /\ data[j].Name = IF SegmentCount(label) >= 1
                             THEN Segment(label, 1) ELSE <<>>
           /\ (data[j].Name = <<>>) <=>
                 (\A i \in 1 .. Len(label) : label[i] \in {",", " "})

C13_Witness ==
    /\ Len(page) = 1
    /\ page[1].name = << <<" ", ",">> >>
    /\ Len(data) = 1
    /\ data[1].Name = <<>>

\* C14: latitude and longitude are both empty when the coordinate node is
\* absent or its text holds no comma; otherwise the text is split once at
\* its first comma into the trimmed latitude and longitude, so
\* "45.0, -73.0" gives "45.0" and "-73.0".
C14_CoordinatesSplitOnce ==
    \A j \in 1 .. Cardinality(NamedCards(page)) :
        /\ j <= Len(data)
        /\ LET el == page[NthNamed(page, j)].coords
               r == data[j]
           IN IF el = <<>> \/ Cuts(el[1]) = {0}
              THEN r.Latitude = <<>> /\ r.Longitude = <<>>
              ELSE LET txt == el[1]
                       c == MinOf(Cuts(txt) \ {0})
                   IN /\ r.Latitude = Trimmed(SubSeq(txt, 1, c - 1))
                      /\ r.Longitude = Trimmed(SubSeq(txt, c + 1, Len(txt)))
                      /\ txt = CoordExample =>
                            /\ r.Latitude = Text("45.0")
                            /\ r.Longitude = Text("-73.0")

C14_Witness ==
    /\ Len(page) = 1
    /\ page[1].coords = <<CoordExample>>
    /\ Len(data) = 1
    /\ data[1].Latitude = Text("45.0")
    /\ data[1].Longitude = Text("-73.0")

IsParse(x) == x \in {"parse_some", "parse_empty"}

\* the extractions and grace delays of the current attempt, in order
Extractions == SelectSeq(steps, LAMBDA x : IsParse(x) \/ x = "wait1500")

UpTo(n) == [i \in 1 .. n |-> i]

\* C16: in every attempt the steps come in the order goto, wait attached,
\* wait visible, extract; an extraction runs only after the three succeeded
\* in that attempt, and a timeout of one of them ends the attempt with
\* snapshot and reload, ending the run only after the last attempt.
C16_StepOrder ==
    /\ [](/\ \A i \in 1 .. Len(steps) :
               /\ i = 1 => steps[i] = "goto"
               /\ i = 2 => steps[i] = "attached"
               /\ i = 3 => steps[i] = "visible"
               /\ IsParse(steps[i]) =>
                     i > 3 /\ SubSeq(steps, 1, 3) = <<"goto", "attached", "visible">>
          /\ pc \in {"parse1", "parse2"} =>
               SubSeq(steps, 1, 3) = <<"goto", "attached", "visible">>
          /\ pc = "close_fail" => attempt >= max_retries)
    /\ [][ /\ (/\ pc \in {"goto", "wait_attached", "wait_visible"}
               /\ steps' = steps
               /\ outcome' = "running") =>
                  /\ pc' = "shot_err"
                  /\ last_error' = [kind |-> "timeout", attempt |-> attempt]
           /\ pc = "shot_err" => pc' = "reload" /\ outcome' = "running"
           /\ pc = "reload" =>
                  /\ outcome' = "running"
                  /\ pc' = IF attempt < max_retries THEN "goto"
                                                    ELSE "close_fail" ]_vars

C16_Witness ==
    /\ pc = "parse1"
    /\ attempt = 2
    /\ last_error = [kind |-> "timeout", attempt |-> 1]
    /\ steps = <<"goto", "attached", "visible", "wait500">>

\* C17: in every attempt parse_cards runs at most twice and the grace
\* delay at most once; the second run happens only after an empty first
\* run and exactly one grace delay, and an empty second run fails the
\* attempt with the 'no cards parsed' error, never a third run.
C17_AtMostTwoExtractions ==
    /\ Extractions \in
          { <<>>, <<"parse_some">>, <<"parse_empty">>,
            <<"parse_empty", "wait1500">>,
            <<"parse_empty", "wait1500", "parse_some">>,
            <<"parse_empty", "wait1500", "parse_empty">> }
    /\ Extractions = <<"parse_empty", "wait1500", "parse_empty">> =>
          /\ last_error = [kind |-> "runtime", attempt |-> attempt]
          /\ pc \in {"shot_err", "reload", "close_fail", "m_failed"}

C17_Witness ==
    /\ Extractions = <<"parse_empty", "wait1500", "parse_empty">>
    /\ pc = "shot_err"
    /\ last_error.kind = "runtime"

\* C18: every run terminates when each step returns or times out: the
\* attempt index only grows, by one at a time, up to max_retries, there
\* are never more than max_retries navigations, and the run ends returned
\* or exhausted (or a step did neither return nor time out).
C18_Terminates ==
    /\ [](/\ attempt <= (IF max_retries > 0 THEN max_retries ELSE 0)
          /\ navCount <= attempt)
    /\ [][attempt' = attempt \/ attempt' = attempt + 1]_vars
    /\ <>(outcome \in {"returned", "exhausted"} \/ excOut.kind = "error")

C18_Witness ==
    /\ outcome = "exhausted"
    /\ max_retries >= 2
    /\ attempt = max_retries
    /\ navCount = max_retries
    /\ excOut = NoError

\* C19: a failure snapshot and a reload follow every failed attempt, the
\* last one included: an exhausted run has made snapshots 1..max_retries,
\* one each, and max_retries reloads before closing the browser, a run
\* that returns at attempt k has made k-1 of each, and no navigation
\* follows the reload of the last attempt.
C19_SnapshotAndReloadEachFailure ==
    /\ shots = UpTo(Len(shots))
    /\ Len(shots) = (IF pc = "shot_err" THEN failCount - 1 ELSE failCount)
    /\ reloadCount = (IF pc \in {"shot_err", "reload"} THEN failCount - 1
                                                       ELSE failCount)
    /\ pc \in {"shot_err", "reload"} => closeCount = 0
    /\ (outcome = "exhausted" /\ max_retries >= 0) =>
          /\ shots = UpTo(max_retries)
          /\ reloadCount = max_retries
          /\ navCount = max_retries
    /\ outcome = "returned" =>
          /\ shots = UpTo(attempt - 1)
          /\ reloadCount = attempt - 1
    /\ (max_retries >= 1 /\ reloadCount >= max_retries) =>
          /\ navCount = max_retries
          /\ pc \in {"close_fail", "m_failed"}

C19_Witness ==
    /\ pc = "close_fail"
    /\ max_retries >= 2
    /\ Len(shots) = max_retries
    /\ reloadCount = max_retries
    /\ closeCount = 0

\* C20: with max_retries zero or negative the run makes no navigation,
\* wait, extraction, snapshot or reload; it closes the browser and fails
\* with the exhausted-retries error whose underlying error is None.
C20_NoAttemptWhenNonPositive ==
    max_retries <= 0 =>
        /\ navCount = 0
        /\ steps = <<>>
        /\ page = <<>>
        /\ shots = <<>>
        /\ reloadCount = 0
        /\ lastShot = "none"
        /\ attempt = 0
        /\ pc \in {"start", "close_fail", "m_failed"}
        /\ Finished =>
              /\ outcome = "exhausted"
              /\ closeCount = 1
              /\ raised = [n |-> max_retries, cause |-> NoError]

C20_Witness ==
    /\ max_retries < 0
    /\ outcome = "exhausted"
    /\ closeCount = 1
    /\ raised.cause = NoError

====
